---------------------------- MODULE Spec2Model ----------------------------
(***************************************************************************)
(* A model of the GitHub integration layer of atlantis:                    *)
(*   - GithubClient's pull-request operations (GetModifiedFiles,           *)
(*     CreateComment, PullIsApproved, PullIsMergeable, UpdateStatus,       *)
(*     MergePull), one action per blocking network call of an operation;   *)
(*   - the application credential's Client() / getInstallationID, in the   *)
(*     two versions the repository holds;                                  *)
(*   - NewGithubClient, which builds the GithubClient the operations run   *)
(*     on from a hostname and a credential;                                *)
(*   - the handlers of GithubAppController, ExchangeCode and New.          *)
(* The platform (the REST API) is the environment: every response of a     *)
(* network call is chosen by \E from a small set when the call is made.    *)
(* Every network call an operation issues is appended to  net ,            *)
(* with the request it carried and the response it got.                    *)
(***************************************************************************)
EXTENDS Integers, Sequences, FiniteSets, TLC

VARIABLES
    pc,      \* position of the single thread of control
    op,      \* the operation being run ("none" before the first call)
    args,    \* the arguments of the running operation
    loc,     \* the local variables of the running operation
    net,     \* the network calls issued by the running operation, in order
    ret,     \* what the operation returned (meaningful when pc = "done")
    posted,  \* platform side: the comment bodies created by the running operation
    g,       \* the GithubClient the operations run on (NoGithubClient before
             \* NewGithubClient returned one)
    susp,    \* the registers of a second goroutine running on g, while it is
             \* not the one taking steps (NoGoroutine when there is none)
    ctl      \* the GithubAppController the handlers ExchangeCode and New are
             \* methods of

vars == <<pc, op, args, loc, net, ret, posted, g, susp, ctl>>

-----------------------------------------------------------------------------
(* Bounds of the model. *)

\* The page walks are cut after this many requests (a platform may hand out
\* next-page markers forever).
MaxRequests == 3

\* Next-page markers range over 0..MaxMarker; 0 is "no next page".
MaxMarker == 2

\* The id texts of the identity endpoint are all texts over IdChars of at most
\* this length, and the texts of LongIdTexts.
MaxIdLen == 3

\* Two goroutines on one client issue at most this many requests between
\* them.
MaxConcRequests == 3

-----------------------------------------------------------------------------
(* Errors.  A Go error is modelled by the parts of its message, outermost   *)
(* first; nil is the empty sequence.                                        *)

Nil == <<>>

\* The errors a failed network call may return.
ApiErrors == { <<"502 Bad Gateway">> }

\* errors.Wrap(err, msg): msg + ": " + err.Error()
Wrap(err, msg) == <<msg>> \o err

-----------------------------------------------------------------------------
(* Inputs. *)

Repo == [Owner |-> "runatlantis", Name |-> "atlantis"]

Pulls == { [Num |-> 1, HeadCommit |-> "sha-a", BaseRepo |-> Repo],
           [Num |-> 2, HeadCommit |-> "sha-b", BaseRepo |-> Repo] }

\* github.CommitFile values a page of ListFiles may hold.
FileMod == [Filename |-> "a.tf", Status |-> "modified", PreviousFilename |-> ""]
FileRen == [Filename |-> "new/b.tf", Status |-> "renamed", PreviousFilename |-> "old/b.tf"]
FileAdd == [Filename |-> "c.tf", Status |-> "added", PreviousFilename |-> ""]

FilePages == { <<>>, <<FileMod, FileRen>>, <<FileRen, FileAdd>> }

\* github.PullRequestReview values a page of ListReviews may hold; a page may
\* hold a nil review.
NilReview == [isNil |-> TRUE, State |-> ""]
Review(state) == [isNil |-> FALSE, State |-> state]

ReviewPages == { <<>>,
                 <<NilReview, Review("COMMENTED")>>,
                 <<Review("CHANGES_REQUESTED"), Review("APPROVED")>>,
                 <<Review("DISMISSED")>> }

\* The mergeable_state values of a pull request ("" when the field is absent).
MergeableStates == { "", "clean", "unstable", "has_hooks", "dirty", "blocked",
                     "behind", "draft", "unknown" }

\* models.CommitStatus values: the three the switch of UpdateStatus names, and
\* values of the type that are none of them.
CommitStatuses == { "PendingCommitStatus", "SuccessCommitStatus", "FailedCommitStatus",
                    "CommitStatus(3)", "CommitStatus(-1)" }

\* The src (context), description and url arguments of UpdateStatus.
StatusContexts == { "atlantis/plan", "atlantis/apply" }
StatusDescriptions == { "", "Plan succeeded." }
StatusUrls == { "", "https://atlantis.example/jobs/1" }

\* The message of a merge result.
MergeMessages == { "", "Pull Request is not mergeable" }

\* common.AutomergeCommitMsg, the commit message of every merge.
AutomergeCommitMsg == "common.AutomergeCommitMsg"

\* maxCommentLength one short of GitHub's limit.
maxCommentLengthOffByOne == 65536 - 1

\* maxCommentLength is the maximum number of chars allowed in a single comment
\* by GitHub.
maxCommentLength == 65536

\* len(sepEnd) and len(sepStart) of CreateComment.
LenSepEnd == 106
LenSepStart == 82

\* A comment text is modelled by its length n: its characters are the
\* positions 1..n.  What fits into a middle segment beside both separators:
MaxWithSep == maxCommentLength - LenSepEnd - LenSepStart

\* The lengths of the comment argument of CreateComment: texts of one, two
\* and three segments, at the edges of each.
CommentLengths == { 0, 1, maxCommentLength, maxCommentLength + 1,
                    2 * MaxWithSep, 2 * MaxWithSep + 1 }

\* The pullNum argument of CreateComment.
PullNums == { 1, 2 }

\* A call entry of  net .
NetCall(api, req, ok, resp) == [api |-> api, req |-> req, ok |-> ok, resp |-> resp]

Idle == pc = "idle"

-----------------------------------------------------------------------------
(* The GithubClient: the go-github client (an http client and the base URL  *)
(* of the API) and a context.  A URL is held as url.Parse leaves it: scheme, *)
(* host and path; a text is a sequence of tokens.                           *)

URL(Scheme, Host, Path) == [Scheme |-> Scheme, Host |-> Host, Path |-> Path]

\* URL.String()
URLString(u) == << u.Scheme, "://" >> \o u.Host \o u.Path

\* The base URL of github.NewClient: "https://api.github.com/".
defaultBaseURL == URL("https", << "api", ".", "github", ".", "com" >>, << "/" >>)

NoClient == [Transport |-> "nil", appID |-> 0, installationID |-> 0]

\* A nil *GithubClient.
NoGithubClient ==
    [client |-> [client |-> NoClient, BaseURL |-> URL("", <<>>, <<>>)], ctx |-> "nil"]

\* The operations are methods of a GithubClient NewGithubClient returned.
Constructed == g # NoGithubClient

\* No second goroutine.
NoGoroutine == [pc |-> "none"]

\* A GithubAppController with the zero value of every field.
NoController == [GithubSetupComplete |-> FALSE, GithubHostname |-> "", GithubOrg |-> ""]

-----------------------------------------------------------------------------
(* The page walks of GetModifiedFiles and PullIsApproved. *)

\* ListOptions asking for the page after the one the marker names.
ListOptionsPageAfter(nextPage) ==
    [PerPage |-> 300, Page |-> IF nextPage # 0 THEN nextPage + 1 ELSE 0]

\* github.ListOptions of one request of a page walk: PerPage is 300, and Page
\* is set only when nextPage is not 0 (Page 0 is the zero value: the first page).
ListOptions(nextPage) ==
    [PerPage |-> 300, Page |-> IF nextPage # 0 THEN nextPage ELSE 0]

\* The request of one page of a pull request's list endpoint.
ListRequest(nextPage) ==
    [owner |-> args.repo.Owner, name |-> args.repo.Name,
     num |-> args.pull.Num, opts |-> ListOptions(nextPage)]

\* LastPage taking the marker 1 for no next page as well.
LastPageUpToOne(NextPage) == NextPage <= 1

\* The walk ends when the response names no next page.
LastPage(NextPage) == NextPage = 0

-----------------------------------------------------------------------------
(* GithubClient.GetModifiedFiles *)

\* FileEntries without the branch for a renamed file.
FileEntriesNoRename(f) == <<f.Filename>>

\* What one file of a page appends to files: its name, and for a renamed file
\* the name it was moved from.
FileEntries(f) ==
    IF f.Status = "renamed" THEN <<f.Filename, f.PreviousFilename>> ELSE <<f.Filename>>

\* The inner loop over pageFiles: files with every file's entries appended.
RECURSIVE AppendPage(_, _)
AppendPage(files, pageFiles) ==
    IF pageFiles = <<>> THEN files
    ELSE AppendPage(files \o FileEntries(Head(pageFiles)), Tail(pageFiles))

\* return nil, err
ListFilesErrorNoFiles(files, err) == [files |-> <<>>, err |-> err]

\* return files, err
ListFilesError(files, err) == [files |-> files, err |-> err]

CallGetModifiedFiles ==
    /\ Idle
    /\ Constructed
    /\ \E pull \in Pulls :
          args' = [repo |-> Repo, pull |-> pull]
    /\ op' = "GetModifiedFiles"
    /\ pc' = "ListFiles"
    /\ loc' = [files |-> <<>>, nextPage |-> 0]
    /\ net' = <<>>
    /\ ret' = [files |-> <<>>, err |-> Nil]
    /\ posted' = <<>>
    /\ UNCHANGED <<g, susp, ctl>>

\* One iteration of the loop whose request fails.
ListFilesFails ==
    /\ op = "GetModifiedFiles" /\ pc = "ListFiles"
    /\ Len(net) < MaxRequests
    /\ \E err \in ApiErrors :
          /\ net' = Append(net, NetCall("PullRequests.ListFiles", ListRequest(loc.nextPage),
                                        FALSE, [items |-> <<>>, NextPage |-> 0, err |-> err]))
          /\ ret' = ListFilesError(loc.files, err)
    /\ pc' = "done"
    /\ UNCHANGED <<op, args, loc, posted>>
    /\ UNCHANGED <<g, susp, ctl>>

\* One iteration of the loop whose request is served.
ListFilesPage ==
    /\ op = "GetModifiedFiles" /\ pc = "ListFiles"
    /\ Len(net) < MaxRequests
    /\ \E pageFiles \in FilePages, NextPage \in 0..MaxMarker :
          LET files == AppendPage(loc.files, pageFiles) IN
          /\ net' = Append(net, NetCall("PullRequests.ListFiles", ListRequest(loc.nextPage),
                                        TRUE, [items |-> pageFiles, NextPage |-> NextPage, err |-> Nil]))
          /\ IF LastPage(NextPage)
             THEN /\ pc' = "done"
                  /\ loc' = [loc EXCEPT !.files = files]
                  /\ ret' = [files |-> files, err |-> Nil]
             ELSE /\ pc' = "ListFiles"
                  /\ loc' = [files |-> files, nextPage |-> NextPage]
                  /\ UNCHANGED ret
    /\ UNCHANGED <<op, args, posted>>
    /\ UNCHANGED <<g, susp, ctl>>

-----------------------------------------------------------------------------
(* GithubClient.PullIsApproved *)

\* (*github.PullRequestReview).GetState: "" for a nil review or a nil State.
GetState(review) == IF review.isNil THEN "" ELSE review.State

\* PageApproved looking at the first review of the page only.
PageApprovedFirst(pageReviews) ==
    pageReviews # <<>> /\ ~Head(pageReviews).isNil /\ Head(pageReviews).State = "APPROVED"

\* The inner loop over pageReviews: whether it reaches  return true, nil .
RECURSIVE PageApproved(_)
PageApproved(pageReviews) ==
    IF pageReviews = <<>> THEN FALSE
    ELSE IF ~Head(pageReviews).isNil /\ GetState(Head(pageReviews)) = "APPROVED" THEN TRUE
    ELSE PageApproved(Tail(pageReviews))

CallPullIsApproved ==
    /\ Idle
    /\ Constructed
    /\ \E pull \in Pulls :
          args' = [repo |-> Repo, pull |-> pull]
    /\ op' = "PullIsApproved"
    /\ pc' = "ListReviews"
    /\ loc' = [nextPage |-> 0]
    /\ net' = <<>>
    /\ ret' = [val |-> FALSE, err |-> Nil]
    /\ posted' = <<>>
    /\ UNCHANGED <<g, susp, ctl>>

ListReviewsFails ==
    /\ op = "PullIsApproved" /\ pc = "ListReviews"
    /\ Len(net) < MaxRequests
    /\ \E err \in ApiErrors :
          /\ net' = Append(net, NetCall("PullRequests.ListReviews", ListRequest(loc.nextPage),
                                        FALSE, [items |-> <<>>, NextPage |-> 0, err |-> err]))
          /\ ret' = [val |-> FALSE, err |-> Wrap(err, "getting reviews")]
    /\ pc' = "done"
    /\ UNCHANGED <<op, args, loc, posted>>
    /\ UNCHANGED <<g, susp, ctl>>

ListReviewsPage ==
    /\ op = "PullIsApproved" /\ pc = "ListReviews"
    /\ Len(net) < MaxRequests
    /\ \E pageReviews \in ReviewPages, NextPage \in 0..MaxMarker :
          /\ net' = Append(net, NetCall("PullRequests.ListReviews", ListRequest(loc.nextPage),
                                        TRUE, [items |-> pageReviews, NextPage |-> NextPage, err |-> Nil]))
          /\ IF PageApproved(pageReviews)
             THEN /\ pc' = "done"
                  /\ ret' = [val |-> TRUE, err |-> Nil]
                  /\ UNCHANGED loc
             ELSE IF LastPage(NextPage)
             THEN /\ pc' = "done"
                  /\ ret' = [val |-> FALSE, err |-> Nil]
                  /\ UNCHANGED loc
             ELSE /\ pc' = "ListReviews"
                  /\ loc' = [nextPage |-> NextPage]
                  /\ UNCHANGED ret
    /\ UNCHANGED <<op, args, posted>>
    /\ UNCHANGED <<g, susp, ctl>>

-----------------------------------------------------------------------------
(* GithubClient.PullIsMergeable and GetPullRequest *)

\* IsMergeableState without the state of GitHub Enterprise.
IsMergeableStateNoHooks(state) ==
    ~(state # "clean" /\ state # "unstable")

\* The states for which the merge button is clickable.
IsMergeableState(state) ==
    ~(state # "clean" /\ state # "unstable" /\ state # "has_hooks")

CallPullIsMergeable ==
    /\ Idle
    /\ Constructed
    /\ \E pull \in Pulls :
          args' = [repo |-> Repo, pull |-> pull]
    /\ op' = "PullIsMergeable"
    /\ pc' = "GetPullRequest"
    /\ loc' = [state |-> ""]
    /\ net' = <<>>
    /\ ret' = [val |-> FALSE, err |-> Nil]
    /\ posted' = <<>>
    /\ UNCHANGED <<g, susp, ctl>>

\* GetPullRequest returns the error of PullRequests.Get as it is.
GetPullRequestFails ==
    /\ op = "PullIsMergeable" /\ pc = "GetPullRequest"
    /\ \E err \in ApiErrors :
          /\ net' = Append(net, NetCall("PullRequests.Get",
                        [owner |-> args.repo.Owner, name |-> args.repo.Name, num |-> args.pull.Num],
                        FALSE, [MergeableState |-> "", err |-> err]))
          /\ ret' = [val |-> FALSE, err |-> Wrap(err, "getting pull request")]
    /\ pc' = "done"
    /\ UNCHANGED <<op, args, loc, posted>>
    /\ UNCHANGED <<g, susp, ctl>>

GetPullRequestOk ==
    /\ op = "PullIsMergeable" /\ pc = "GetPullRequest"
    /\ \E state \in MergeableStates :
          /\ net' = Append(net, NetCall("PullRequests.Get",
                        [owner |-> args.repo.Owner, name |-> args.repo.Name, num |-> args.pull.Num],
                        TRUE, [MergeableState |-> state, err |-> Nil]))
          /\ loc' = [state |-> state]
          /\ ret' = [val |-> IsMergeableState(state), err |-> Nil]
    /\ pc' = "done"
    /\ UNCHANGED <<op, args, posted>>
    /\ UNCHANGED <<g, susp, ctl>>

-----------------------------------------------------------------------------
(* GithubClient.UpdateStatus *)

\* GhState without the case of FailedCommitStatus.
GhStateNoFailure(state) ==
    CASE state = "PendingCommitStatus" -> "pending"
      [] state = "SuccessCommitStatus" -> "success"
      [] OTHER -> "error"

\* The switch on state: "error" unless one of the three cases sets it.
GhState(state) ==
    CASE state = "PendingCommitStatus" -> "pending"
      [] state = "SuccessCommitStatus" -> "success"
      [] state = "FailedCommitStatus" -> "failure"
      [] OTHER -> "error"

\* The github.RepoStatus sent.
RepoStatus(state, src, description, url) ==
    [State |-> GhState(state), Description |-> description,
     Context |-> src, TargetURL |-> url]

\* StatusRef naming a commit other than the one of the pull request given.
StatusRefOther(pull) == "sha-other"

\* The ref the status is created for.
StatusRef(pull) == pull.HeadCommit

CallUpdateStatus ==
    /\ Idle
    /\ Constructed
    /\ \E pull \in Pulls, state \in CommitStatuses, src \in StatusContexts,
          description \in StatusDescriptions, url \in StatusUrls :
          args' = [repo |-> Repo, pull |-> pull, state |-> state, src |-> src,
                   description |-> description, url |-> url]
    /\ op' = "UpdateStatus"
    /\ pc' = "CreateStatus"
    /\ loc' = [nextPage |-> 0]
    /\ net' = <<>>
    /\ ret' = [err |-> Nil]
    /\ posted' = <<>>
    /\ UNCHANGED <<g, susp, ctl>>

\* CreateStatus on a client built anew for the call, with the base URL of
\* github.NewClient.
CreateStatusOnNewClient ==
    /\ op = "UpdateStatus" /\ pc = "CreateStatus"
    /\ \E err \in ApiErrors \cup {Nil} :
          /\ net' = Append(net, NetCall("Repositories.CreateStatus",
                        [owner |-> args.repo.Owner, name |-> args.repo.Name,
                         ref |-> args.pull.HeadCommit,
                         status |-> RepoStatus(args.state, args.src, args.description, args.url)],
                        err = Nil, [err |-> err]))
          /\ ret' = [err |-> err]
    /\ pc' = "done"
    /\ g' = [g EXCEPT !.client.BaseURL = defaultBaseURL]
    /\ UNCHANGED <<op, args, loc, posted, susp, ctl>>

\* The single call, whose error (or nil) is returned as it is.
CreateStatus ==
    /\ op = "UpdateStatus" /\ pc = "CreateStatus"
    /\ \E err \in ApiErrors \cup {Nil} :
          /\ net' = Append(net, NetCall("Repositories.CreateStatus",
                        [owner |-> args.repo.Owner, name |-> args.repo.Name,
                         ref |-> StatusRef(args.pull),
                         status |-> RepoStatus(args.state, args.src, args.description, args.url)],
                        err = Nil, [err |-> err]))
          /\ ret' = [err |-> err]
    /\ pc' = "done"
    /\ UNCHANGED <<op, args, loc, posted>>
    /\ UNCHANGED <<g, susp, ctl>>

-----------------------------------------------------------------------------
(* GithubClient.MergePull *)

\* MergeMethod asking for squash before rebase.
MergeMethodSquashFirst(repo) ==
    IF ~repo.AllowMergeCommit
    THEN IF repo.AllowSquashMerge THEN "squash"
         ELSE IF repo.AllowRebaseMerge THEN "rebase"
         ELSE "merge"
    ELSE "merge"

\* The merge method chosen from the repository's allow-flags.
MergeMethod(repo) ==
    IF ~repo.AllowMergeCommit
    THEN IF repo.AllowRebaseMerge THEN "rebase"
         ELSE IF repo.AllowSquashMerge THEN "squash"
         ELSE "merge"
    ELSE "merge"

\* MergeOutcome without the check of GetMerged.
MergeOutcomeUnchecked(mergeResult) == Nil

\* The result of MergePull after a merge call that returned no error.
MergeOutcome(mergeResult) ==
    IF ~mergeResult.Merged
    THEN <<"could not merge pull request", mergeResult.Message>>
    ELSE Nil

CallMergePull ==
    /\ Idle
    /\ Constructed
    /\ \E pull \in Pulls :
          args' = [pull |-> pull]
    /\ op' = "MergePull"
    /\ pc' = "Repositories.Get"
    /\ loc' = [method |-> "merge"]
    /\ net' = <<>>
    /\ ret' = [err |-> Nil]
    /\ posted' = <<>>
    /\ UNCHANGED <<g, susp, ctl>>

\* RepositoriesGetFails going on to the merge call with the error dropped.
RepositoriesGetFailsDropped ==
    /\ op = "MergePull" /\ pc = "Repositories.Get"
    /\ \E err \in ApiErrors :
          net' = Append(net, NetCall("Repositories.Get",
                        [owner |-> args.pull.BaseRepo.Owner, name |-> args.pull.BaseRepo.Name],
                        FALSE, [err |-> err]))
    /\ pc' = "PullRequests.Merge"
    /\ UNCHANGED <<op, args, loc, ret, posted, g, susp, ctl>>

\* The fetch of the repository fails: the error is returned, wrapped.
RepositoriesGetFails ==
    /\ op = "MergePull" /\ pc = "Repositories.Get"
    /\ \E err \in ApiErrors :
          /\ net' = Append(net, NetCall("Repositories.Get",
                        [owner |-> args.pull.BaseRepo.Owner, name |-> args.pull.BaseRepo.Name],
                        FALSE, [err |-> err]))
          /\ ret' = [err |-> Wrap(err, "fetching repo info")]
    /\ pc' = "done"
    /\ UNCHANGED <<op, args, loc, posted>>
    /\ UNCHANGED <<g, susp, ctl>>

RepositoriesGetOk ==
    /\ op = "MergePull" /\ pc = "Repositories.Get"
    /\ \E amc \in BOOLEAN, arm \in BOOLEAN, asm \in BOOLEAN :
          LET repo == [AllowMergeCommit |-> amc, AllowRebaseMerge |-> arm,
                       AllowSquashMerge |-> asm] IN
          /\ net' = Append(net, NetCall("Repositories.Get",
                        [owner |-> args.pull.BaseRepo.Owner, name |-> args.pull.BaseRepo.Name],
                        TRUE, repo))
          /\ loc' = [method |-> MergeMethod(repo)]
    /\ pc' = "PullRequests.Merge"
    /\ UNCHANGED <<op, args, ret, posted>>
    /\ UNCHANGED <<g, susp, ctl>>

\* The request of the merge call.
MergeRequest ==
    [owner |-> args.pull.BaseRepo.Owner, name |-> args.pull.BaseRepo.Name,
     num |-> args.pull.Num, commitMessage |-> AutomergeCommitMsg,
     options |-> [MergeMethod |-> loc.method]]

MergeFails ==
    /\ op = "MergePull" /\ pc = "PullRequests.Merge"
    /\ \E err \in ApiErrors :
          /\ net' = Append(net, NetCall("PullRequests.Merge", MergeRequest,
                        FALSE, [Merged |-> FALSE, Message |-> "", err |-> err]))
          /\ ret' = [err |-> Wrap(err, "merging pull request")]
    /\ pc' = "done"
    /\ UNCHANGED <<op, args, loc, posted>>
    /\ UNCHANGED <<g, susp, ctl>>

MergeAnswered ==
    /\ op = "MergePull" /\ pc = "PullRequests.Merge"
    /\ \E merged \in BOOLEAN, message \in MergeMessages :
          LET mergeResult == [Merged |-> merged, Message |-> message, err |-> Nil] IN
          /\ net' = Append(net, NetCall("PullRequests.Merge", MergeRequest,
                        TRUE, mergeResult))
          /\ ret' = [err |-> MergeOutcome(mergeResult)]
    /\ pc' = "done"
    /\ UNCHANGED <<op, args, loc, posted>>
    /\ UNCHANGED <<g, susp, ctl>>

-----------------------------------------------------------------------------
(* common.SplitComment and GithubClient.CreateComment *)

Min(a, b) == IF a <= b THEN a ELSE b

\* A segment is the characters from..to of the text, with sepStart before
\* them (start) and sepEnd after them (end).
Segment(from, to, start, end) == [from |-> from, to |-> to, start |-> start, end |-> end]

\* The length of a segment as posted.
RenderedLen(c) ==
    (c.to - c.from + 1) + (IF c.start THEN LenSepStart ELSE 0)
                        + (IF c.end THEN LenSepEnd ELSE 0)

\* SplitComment with portions of maxSize, leaving no room for the separators.
SplitCommentNoRoom(n, maxSize, lenSepEnd, lenSepStart) ==
    IF n <= maxSize THEN << [from |-> 1, to |-> n, start |-> FALSE, end |-> FALSE] >>
    ELSE LET numComments == (n + maxSize - 1) \div maxSize
         IN  [i \in 1..numComments |->
                 [from |-> (i - 1) * maxSize + 1,
                  to |-> IF n <= i * maxSize THEN n ELSE i * maxSize,
                  start |-> i > 1, end |-> i < numComments]]

\* SplitComment with the number of portions rounded down: the rest of the
\* text after the last full portion is left out.
SplitCommentRoundedDown(n, maxSize, lenSepEnd, lenSepStart) ==
    IF n <= maxSize THEN << [from |-> 1, to |-> n, start |-> FALSE, end |-> FALSE] >>
    ELSE LET maxWithSep == maxSize - lenSepEnd - lenSepStart
             numComments == n \div maxWithSep
         IN  [i \in 1..numComments |->
                 [from |-> (i - 1) * maxWithSep + 1,
                  to |-> IF n <= i * maxWithSep THEN n ELSE i * maxWithSep,
                  start |-> i > 1, end |-> i < numComments]]

\* common.SplitComment(comment, maxSize, sepEnd, sepStart): the text as it is
\* when it fits, else consecutive portions of what fits beside the separators,
\* each but the last followed by sepEnd and each but the first preceded by
\* sepStart.
SplitComment(n, maxSize, lenSepEnd, lenSepStart) ==
    IF n <= maxSize THEN << Segment(1, n, FALSE, FALSE) >>
    ELSE LET maxWithSep == maxSize - lenSepEnd - lenSepStart
             numComments == (n + maxWithSep - 1) \div maxWithSep
         IN  [i \in 1..numComments |->
                 Segment((i - 1) * maxWithSep + 1, Min(n, i * maxWithSep),
                         i > 1, i < numComments)]

CallCreateComment ==
    /\ Idle
    /\ Constructed
    /\ \E pullNum \in PullNums, comment \in CommentLengths :
          /\ args' = [repo |-> Repo, pullNum |-> pullNum, comment |-> comment]
          /\ loc' = [comments |-> SplitComment(comment, maxCommentLength, LenSepEnd, LenSepStart),
                     i |-> 1]
    /\ op' = "CreateComment"
    /\ pc' = "Issues.CreateComment"
    /\ net' = <<>>
    /\ ret' = [err |-> Nil]
    /\ posted' = <<>>
    /\ UNCHANGED <<g, susp, ctl>>

\* The request that creates comments[i].
CommentRequest(i) ==
    [owner |-> args.repo.Owner, name |-> args.repo.Name, num |-> args.pullNum,
     Body |-> loc.comments[i]]

\* AfterComment stepping over a segment.
AfterCommentSkip(i) == i + 2

\* Where the loop stands after comments[i] was created: at the next segment,
\* or past the last one.
AfterComment(i) == i + 1

\* Creating comments[i] fails: the error is returned.
IssuesCreateCommentFails ==
    /\ op = "CreateComment" /\ pc = "Issues.CreateComment"
    /\ loc.i <= Len(loc.comments)
    /\ \E err \in ApiErrors :
          /\ net' = Append(net, NetCall("Issues.CreateComment", CommentRequest(loc.i),
                                        FALSE, [err |-> err]))
          /\ ret' = [err |-> err]
    /\ pc' = "done"
    /\ UNCHANGED <<op, args, loc, posted>>
    /\ UNCHANGED <<g, susp, ctl>>

\* comments[i] is created: the loop goes on, and returns nil after the last.
IssuesCreateCommentOk ==
    /\ op = "CreateComment" /\ pc = "Issues.CreateComment"
    /\ loc.i <= Len(loc.comments)
    /\ net' = Append(net, NetCall("Issues.CreateComment", CommentRequest(loc.i),
                                  TRUE, [err |-> Nil]))
    /\ posted' = Append(posted, loc.comments[loc.i])
    /\ loc' = [loc EXCEPT !.i = AfterComment(loc.i)]
    /\ IF AfterComment(loc.i) > Len(loc.comments)
       THEN pc' = "done" /\ ret' = [err |-> Nil]
       ELSE pc' = "Issues.CreateComment" /\ UNCHANGED ret
    /\ UNCHANGED <<op, args>>
    /\ UNCHANGED <<g, susp, ctl>>

-----------------------------------------------------------------------------
(* strconv.ParseInt(s, 10, 64).  A text is a sequence of characters.        *)

Digits == { "0", "1", "2", "3", "4", "5", "6", "7", "8", "9" }

DigitVal(c) ==
    CASE c = "0" -> 0 [] c = "1" -> 1 [] c = "2" -> 2 [] c = "3" -> 3 [] c = "4" -> 4
      [] c = "5" -> 5 [] c = "6" -> 6 [] c = "7" -> 7 [] c = "8" -> 8 [] c = "9" -> 9

\* The decimal digits of 1<<63, the cutoff of a 64-bit ParseInt.
Cutoff64 == << "9", "2", "2", "3", "3", "7", "2", "0", "3", "6",
               "8", "5", "4", "7", "7", "5", "8", "0", "8" >>

RECURSIVE StripZeros(_)
StripZeros(ds) ==
    IF ds # <<>> /\ Head(ds) = "0" THEN StripZeros(Tail(ds)) ELSE ds

\* Whether the number written by the digits a is less than the one written by
\* the digits b (neither with a leading zero).
RECURSIVE DigitsLess(_, _)
DigitsLess(a, b) ==
    IF Len(a) # Len(b) THEN Len(a) < Len(b)
    ELSE IF a = <<>> THEN FALSE
    ELSE IF Head(a) # Head(b) THEN DigitVal(Head(a)) < DigitVal(Head(b))
    ELSE DigitsLess(Tail(a), Tail(b))

\* Accumulate for base 8 in place of base 10.
RECURSIVE AccumulateBase8(_, _)
AccumulateBase8(n, ds) ==
    IF ds = <<>> THEN n ELSE AccumulateBase8(n * 8 + DigitVal(Head(ds)), Tail(ds))

\* The loop of ParseUint over the digits: n = n*10 + d.
RECURSIVE Accumulate(_, _)
Accumulate(n, ds) ==
    IF ds = <<>> THEN n ELSE Accumulate(n * 10 + DigitVal(Head(ds)), Tail(ds))

SyntaxError == << "strconv.ParseInt", "invalid syntax" >>
RangeError == << "strconv.ParseInt", "value out of range" >>

\* The result of ParseInt: the value n and the error.  When the value is out
\* of range ParseInt returns the nearest int64, named by sat, with the error
\* (n is then 0 here: the integers of the model do not reach 1<<63).
ParseResult(n, sat, err) == [n |-> n, sat |-> sat, err |-> err]

ParseInt(s) ==
    IF s = <<>> THEN ParseResult(0, "", SyntaxError)
    ELSE LET neg == Head(s) = "-"
             body == IF Head(s) \in {"+", "-"} THEN Tail(s) ELSE s
             un == StripZeros(body)
         IN  IF body = <<>> THEN ParseResult(0, "", SyntaxError)
             ELSE IF \E i \in 1..Len(body) : body[i] \notin Digits
                  THEN ParseResult(0, "", SyntaxError)
             ELSE IF ~neg /\ ~DigitsLess(un, Cutoff64)
                  THEN ParseResult(0, "MaxInt64", RangeError)
             ELSE IF neg /\ DigitsLess(Cutoff64, un)
                  THEN ParseResult(0, "MinInt64", RangeError)
             ELSE ParseResult(IF neg THEN -Accumulate(0, un) ELSE Accumulate(0, un), "", Nil)

-----------------------------------------------------------------------------
(* GithubAppCredentials.getInstallationID and Client.  The repository holds *)
(* two versions of Client: the one beside GithubClient, which panics on an  *)
(* error, and the one of github_credentials.go, which returns it.           *)

\* The errors of ghinstallation.NewAppsTransportKeyFromFile and NewKeyFromFile
\* (the key file cannot be read, or holds no private key).
KeyErrors == { <<"could not read private key">> }

\* What the identity request may fail with: the JWT cannot be signed, the
\* platform does not answer, or its answer does not decode.
DoErrors == { <<"could not sign jwt">>, <<"json: cannot unmarshal">> } \cup ApiErrors

\* The characters of the enumerated id texts ("x" stands for every character
\* that is neither a digit nor a sign).
IdChars == { "0", "1", "9", "-", "+", "x" }

RECURSIVE TextsOfLen(_)
TextsOfLen(n) ==
    IF n = 0 THEN { <<>> }
    ELSE { Append(t, c) : t \in TextsOfLen(n - 1), c \in IdChars }

LongIdTexts == { << "1", "2", "3", "4", "5" >>,
                 Cutoff64,
                 << "-" >> \o Cutoff64 \o << "0" >> }

\* The id texts the identity endpoint may answer with ("" when the response
\* has no id).
IdTexts == UNION { TextsOfLen(n) : n \in 0..MaxIdLen } \cup LongIdTexts

Versions == { "part_000", "github_credentials.go" }

\* &http.Client{Transport: itr}
InstallationClient(appID, installationID) ==
    [Transport |-> "ghinstallation.Transport", appID |-> appID,
     installationID |-> installationID]

AppCredentials == { [App |-> 7, Key |-> "atlantis.pem"] }

\* Client() runs when it is called alone, and when NewGithubClient calls it.
InClient == op \in { "AppClient", "NewGithubClient" }

\* Where control is after Client() returned a client: back at its caller.
ClientReturnsTo == IF op = "NewGithubClient" THEN "github.NewClient" ELSE "done"

\* The id texts the identity endpoint answers with while NewGithubClient runs
\* (all of IdTexts when Client() is called alone).
ConstructionIdTexts == { << "1" >>, << "x" >> }

AnsweredIdTexts == IF op = "NewGithubClient" THEN ConstructionIdTexts ELSE IdTexts

CallAppClient ==
    /\ Idle
    /\ \E c \in AppCredentials, v \in Versions :
          args' = [c |-> c, version |-> v]
    /\ op' = "AppClient"
    /\ pc' = "NewAppsTransportKeyFromFile"
    /\ loc' = [installationID |-> 0, sat |-> "", err |-> Nil, steps |-> <<>>]
    /\ net' = <<>>
    /\ ret' = [client |-> NoClient, err |-> Nil]
    /\ posted' = <<>>
    /\ UNCHANGED <<g, susp, ctl>>

\* Client() when getInstallationID or NewKeyFromFile returned err: the version
\* beside GithubClient panics, the one of github_credentials.go returns it.
ClientFails(err) ==
    IF args.version = "part_000"
    THEN /\ pc' = "panic"
         /\ UNCHANGED ret
    ELSE /\ pc' = "done"
         /\ ret' = [client |-> NoClient, err |-> err]

\* getInstallationID: the application transport is built from the key file.
AppsTransportFails ==
    /\ InClient /\ pc = "NewAppsTransportKeyFromFile"
    /\ \E err \in KeyErrors :
          /\ loc' = [loc EXCEPT !.err = err,
                                !.steps = Append(@, "NewAppsTransportKeyFromFile")]
          /\ ClientFails(err)
    /\ UNCHANGED <<op, args, net, posted>>
    /\ UNCHANGED <<g, susp, ctl>>

AppsTransportOk ==
    /\ InClient /\ pc = "NewAppsTransportKeyFromFile"
    /\ loc' = [loc EXCEPT !.steps = Append(@, "NewAppsTransportKeyFromFile")]
    /\ pc' = "Do"
    /\ UNCHANGED <<op, args, net, ret, posted>>
    /\ UNCHANGED <<g, susp, ctl>>

\* getInstallationID: GET /app fails.
DoFails ==
    /\ InClient /\ pc = "Do"
    /\ \E err \in DoErrors :
          /\ net' = Append(net, NetCall("GET /app", [app |-> args.c.App],
                                        FALSE, [ID |-> <<>>, err |-> err]))
          /\ loc' = [loc EXCEPT !.err = err, !.steps = Append(@, "Do")]
          /\ ClientFails(err)
    /\ UNCHANGED <<op, args, posted>>
    /\ UNCHANGED <<g, susp, ctl>>

\* DoAnswered with the error of getInstallationID dropped by Client.
DoAnsweredErrDropped ==
    /\ InClient /\ pc = "Do"
    /\ \E ID \in AnsweredIdTexts :
          LET r == ParseInt(ID) IN
          /\ net' = Append(net, NetCall("GET /app", [app |-> args.c.App],
                                        TRUE, [ID |-> ID, err |-> Nil]))
          /\ loc' = [loc EXCEPT !.installationID = r.n, !.sat = r.sat, !.err = r.err,
                                !.steps = @ \o <<"Do", "ParseInt">>]
          /\ pc' = "NewKeyFromFile" /\ UNCHANGED ret
    /\ UNCHANGED <<op, args, posted>>
    /\ UNCHANGED <<g, susp, ctl>>

\* getInstallationID: GET /app is answered, and the id of the answer is parsed.
DoAnswered ==
    /\ InClient /\ pc = "Do"
    /\ \E ID \in AnsweredIdTexts :
          LET r == ParseInt(ID) IN
          /\ net' = Append(net, NetCall("GET /app", [app |-> args.c.App],
                                        TRUE, [ID |-> ID, err |-> Nil]))
          /\ loc' = [loc EXCEPT !.installationID = r.n, !.sat = r.sat, !.err = r.err,
                                !.steps = @ \o <<"Do", "ParseInt">>]
          /\ IF r.err # Nil
             THEN ClientFails(r.err)
             ELSE pc' = "NewKeyFromFile" /\ UNCHANGED ret
    /\ UNCHANGED <<op, args, posted>>
    /\ UNCHANGED <<g, susp, ctl>>

\* Client: the installation transport is built from the key file.
InstallationTransportFails ==
    /\ InClient /\ pc = "NewKeyFromFile"
    /\ \E err \in KeyErrors :
          /\ loc' = [loc EXCEPT !.steps = Append(@, "NewKeyFromFile")]
          /\ ClientFails(err)
    /\ UNCHANGED <<op, args, net, posted>>
    /\ UNCHANGED <<g, susp, ctl>>

InstallationTransportOk ==
    /\ InClient /\ pc = "NewKeyFromFile"
    /\ loc' = [loc EXCEPT !.steps = Append(@, "NewKeyFromFile")]
    /\ ret' = [client |-> InstallationClient(args.c.App, loc.installationID), err |-> Nil]
    /\ pc' = ClientReturnsTo
    /\ UNCHANGED <<op, args, net, posted>>
    /\ UNCHANGED <<g, susp, ctl>>

-----------------------------------------------------------------------------
(* NewGithubClient(hostname, credentials, logger).                          *)

WhiteSpace == { " ", "\n" }

RECURSIVE TrimLeft(_)
TrimLeft(s) == IF s # <<>> /\ Head(s) \in WhiteSpace THEN TrimLeft(Tail(s)) ELSE s

Reverse(s) == [i \in 1..Len(s) |-> s[Len(s) + 1 - i]]

\* strings.TrimSpace
TrimSpace(s) == Reverse(TrimLeft(Reverse(TrimLeft(s))))

UserCredentials == { [User |-> << " ", "atlantis" >>, Token |-> << "token", "\n" >>] }

IsUser(c) == "User" \in DOMAIN c

\* GithubUserCredentials.Client()
UserClient(c) ==
    [Transport |-> "github.BasicAuthTransport",
     Username |-> TrimSpace(c.User), Password |-> TrimSpace(c.Token)]

\* "github.com"
PublicHostname == << "github", ".", "com" >>

\* The hostnames NewGithubClient is called with: the public one, one of a
\* GitHub Enterprise with a port, the empty one, and three that do not parse
\* (a space, a port that is no number, a control character).
Hostnames ==
    { PublicHostname,
      << "ghe", ".", "example", ".", "com", ":", "8443" >>,
      << >>,
      << "ghe", " ", "example", ".", "com" >>,
      << "ghe", ".", "example", ".", "com", ":", "x" >>,
      << "ghe", ".", "example", ".", "com", "\n" >> }

\* BaseURLFormat with the path of another version of the API.
BaseURLFormatV4(hostname) == << "https", "://" >> \o hostname \o << "/api/v4/" >>

\* fmt.Sprintf("https://%s/api/v3/", hostname)
BaseURLFormat(hostname) == << "https", "://" >> \o hostname \o << "/api/v3/" >>

\* url.Parse.  The tokens of a text that are control characters, that begin
\* a path, that are runs of digits, and that may not stand in a host.
ControlChars == { "\n" }
PathTokens == { "/", "/api/v3/", "/api/v4/" }
DigitRuns == { "8443" }
InvalidHostChars == { " " }

UrlError(msg) == << "parse", msg >>

\* strings.LastIndex (0 when c is not in s)
LastIndex(s, c) ==
    IF \E i \in 1..Len(s) : s[i] = c
    THEN CHOOSE i \in 1..Len(s) : s[i] = c /\ \A j \in (i + 1)..Len(s) : s[j] # c
    ELSE 0

validOptionalPort(port) ==
    \/ port = <<>>
    \/ port[1] = ":" /\ \A i \in 2..Len(port) : port[i] \in DigitRuns

parseHost(host) ==
    LET i == LastIndex(host, ":") IN
    IF i # 0 /\ ~validOptionalPort(SubSeq(host, i, Len(host)))
    THEN [host |-> <<>>, err |-> UrlError("invalid port after host")]
    ELSE IF \E k \in 1..Len(host) : host[k] \in InvalidHostChars
    THEN [host |-> <<>>, err |-> UrlError("invalid character in host name")]
    ELSE [host |-> host, err |-> Nil]

\* url.Parse of a text "scheme://authority/path".
Parse(rawurl) ==
    IF \E i \in 1..Len(rawurl) : rawurl[i] \in ControlChars
    THEN [url |-> URL("", <<>>, <<>>),
          err |-> UrlError("net/url: invalid control character in URL")]
    ELSE LET rest == SubSeq(rawurl, 3, Len(rawurl))
             slash == CHOOSE i \in 1..(Len(rest) + 1) :
                         /\ i <= Len(rest) => rest[i] \in PathTokens
                         /\ \A j \in 1..(i - 1) : rest[j] \notin PathTokens
             h == parseHost(SubSeq(rest, 1, slash - 1))
         IN  IF h.err # Nil THEN [url |-> URL("", <<>>, <<>>), err |-> h.err]
             ELSE [url |-> URL(rawurl[1], h.host, SubSeq(rest, slash, Len(rest))),
                   err |-> Nil]

\* &GithubClient{client: client, ctx: context.Background()}
GithubClient(client) == [client |-> client, ctx |-> "context.Background"]

\* NewGithubClient is entered and calls credentials.Client(): the one of a
\* user credential returns at once, the one of an application credential
\* starts the exchange.
CallNewGithubClient ==
    /\ Idle
    /\ ~Constructed
    /\ \E hostname \in Hostnames, credentials \in UserCredentials \cup AppCredentials :
          /\ args' = [hostname |-> hostname, c |-> credentials, version |-> "part_000"]
          /\ IF IsUser(credentials)
             THEN /\ pc' = "github.NewClient"
                  /\ ret' = [client |-> UserClient(credentials), err |-> Nil]
                  /\ loc' = [installationID |-> 0, sat |-> "", err |-> Nil,
                             steps |-> << "BasicAuthTransport" >>]
             ELSE /\ pc' = "NewAppsTransportKeyFromFile"
                  /\ ret' = [client |-> NoClient, err |-> Nil]
                  /\ loc' = [installationID |-> 0, sat |-> "", err |-> Nil, steps |-> <<>>]
    /\ op' = "NewGithubClient"
    /\ net' = <<>>
    /\ posted' = <<>>
    /\ UNCHANGED <<g, susp, ctl>>

\* The rest of NewGithubClient, given the http client of the credential:
\* github.NewClient, the base URL of a hostname other than github.com, and
\* the GithubClient returned.
NewClient ==
    /\ op = "NewGithubClient" /\ pc = "github.NewClient"
    /\ LET client == [client |-> ret.client, BaseURL |-> defaultBaseURL]
           baseURL == BaseURLFormat(args.hostname)
           parsed == Parse(baseURL)
       IN  IF args.hostname # PublicHostname
           THEN IF parsed.err # Nil
                THEN /\ ret' = [client |-> NoGithubClient,
                                err |-> Wrap(parsed.err, "Invalid github hostname trying to parse")]
                     /\ g' = g
                ELSE /\ ret' = [client |-> GithubClient([client EXCEPT !.BaseURL = parsed.url]),
                                err |-> Nil]
                     /\ g' = ret'.client
           ELSE /\ ret' = [client |-> GithubClient(client), err |-> Nil]
                /\ g' = ret'.client
    /\ pc' = "done"
    /\ UNCHANGED <<op, args, loc, net, posted, susp, ctl>>

-----------------------------------------------------------------------------
(* The operation has returned: its caller takes the result, and nothing of  *)
(* the call is kept.                                                        *)

Return ==
    /\ pc = "done"
    /\ pc' = "idle"
    /\ op' = "none"
    /\ args' = [repo |-> Repo]
    /\ loc' = [nextPage |-> 0]
    /\ net' = <<>>
    /\ ret' = [err |-> Nil]
    /\ posted' = <<>>
    /\ UNCHANGED <<g, susp, ctl>>

-----------------------------------------------------------------------------

Init ==
    /\ pc = "idle"
    /\ op = "none"
    /\ args = [repo |-> Repo]
    /\ loc = [nextPage |-> 0]
    /\ net = <<>>
    /\ ret = [err |-> Nil]
    /\ posted = <<>>
    /\ g = NoGithubClient
    /\ susp = NoGoroutine
    /\ ctl = NoController

Next ==
    \/ CallGetModifiedFiles
    \/ ListFilesFails
    \/ ListFilesPage
    \/ CallPullIsApproved
    \/ ListReviewsFails
    \/ ListReviewsPage
    \/ CallPullIsMergeable
    \/ GetPullRequestFails
    \/ GetPullRequestOk
    \/ CallUpdateStatus
    \/ CreateStatus
    \/ CallMergePull
    \/ RepositoriesGetFails
    \/ RepositoriesGetOk
    \/ MergeFails
    \/ MergeAnswered
    \/ CallCreateComment
    \/ IssuesCreateCommentFails
    \/ IssuesCreateCommentOk
    \/ CallAppClient
    \/ AppsTransportFails
    \/ AppsTransportOk
    \/ DoFails
    \/ DoAnswered
    \/ InstallationTransportFails
    \/ InstallationTransportOk
    \/ CallNewGithubClient
    \/ NewClient
    \/ Return

Spec == Init /\ [][Next]_vars

-----------------------------------------------------------------------------
(* Two goroutines on one GithubClient.  Each runs operations of its own;    *)
(* what a goroutine holds is its registers: the arguments and local         *)
(* variables of its call, the calls it issued and its result.  One of the   *)
(* two takes steps, the registers of the other wait in  susp , and the      *)
(* scheduler may switch between them before any step.  The two share g.     *)

Registers ==
    [pc |-> pc, op |-> op, args |-> args, loc |-> loc, net |-> net, ret |-> ret,
     posted |-> posted]

\* A goroutine that has not called anything yet.
IdleGoroutine ==
    [pc |-> "idle", op |-> "none", args |-> [repo |-> Repo], loc |-> [nextPage |-> 0],
     net |-> <<>>, ret |-> [err |-> Nil], posted |-> <<>>]

\* ResumeLoc with the cursor of the walk held in one place for both
\* goroutines: the goroutine resumed finds the cursor the other one left.
ResumeLocSharedCursor(saved) == [saved.loc EXCEPT !.nextPage = loc.nextPage]

\* The local variables a goroutine finds when it is resumed: its own
\* (nextPage and files are declared in the call).
ResumeLoc(saved) == saved.loc

\* The scheduler takes the running goroutine off and resumes the other one.
Switch ==
    /\ susp # NoGoroutine
    /\ pc' = susp.pc
    /\ op' = susp.op
    /\ args' = susp.args
    /\ loc' = ResumeLoc(susp)
    /\ net' = susp.net
    /\ ret' = susp.ret
    /\ posted' = susp.posted
    /\ susp' = Registers
    /\ UNCHANGED <<g, ctl>>

\* The client the two goroutines share: one of a user credential for
\* github.com.
SharedClient ==
    GithubClient([client |-> CHOOSE c \in { UserClient(u) : u \in UserCredentials } : TRUE,
                  BaseURL |-> defaultBaseURL])

InitConc ==
    /\ pc = "idle"
    /\ op = "none"
    /\ args = [repo |-> Repo]
    /\ loc = [nextPage |-> 0]
    /\ net = <<>>
    /\ ret = [err |-> Nil]
    /\ posted = <<>>
    /\ g = SharedClient
    /\ susp = IdleGoroutine
    /\ ctl = NoController

\* Whether the two goroutines may issue one more request.
ConcBounded == Len(net) + Len(susp.net) < MaxConcRequests

NextConc ==
    \/ CallGetModifiedFiles
    \/ ConcBounded /\ ListFilesFails
    \/ ConcBounded /\ ListFilesPage
    \/ CallPullIsApproved
    \/ ConcBounded /\ ListReviewsFails
    \/ ConcBounded /\ ListReviewsPage
    \/ Return
    \/ Switch

SpecConc == InitConc /\ [][NextConc]_vars

-----------------------------------------------------------------------------
(* GithubAppController: the handlers ExchangeCode and New.  What a handler  *)
(* gives back is what it wrote to its http.ResponseWriter, held in ret.w.   *)

StatusOK == 200
StatusTemporaryRedirect == 307
StatusBadRequest == 400
StatusBadGateway == 502

\* An http.ResponseWriter: the status of the response (0 until WriteHeader is
\* called; a later call of WriteHeader does not change it), the number of
\* calls of WriteHeader, the lines written to the body and the Location header.
NewResponseWriter == [status |-> 0, headers |-> 0, body |-> <<>>, Location |-> <<>>]

\* No id, key or webhook secret of an app.
NoData == [ID |-> 0, Key |-> "", WebhookSecret |-> ""]

\* g.respond(w, lvl, code, format, args...): w.WriteHeader(code), then the
\* message (and the data formatted into it) as a line of the body.
respond(w, code, msg, data) ==
    [w EXCEPT !.status = IF @ = 0 THEN code ELSE @,
              !.headers = @ + 1,
              !.body = Append(@, [msg |-> msg, data |-> data])]

\* The controllers the handlers are called on.
Controllers ==
    [GithubSetupComplete : BOOLEAN,
     GithubHostname : { "github.com", "ghe.example.com" },
     GithubOrg : { "", "runatlantis" }]

\* The values of the query parameter code: none, two codes, and one with an
\* escape that no URL may hold.
Codes == { <<>>, << "c0de" >>, << "c0de", "-", "2" >>, << "%zz" >> }

InvalidEscapes == { "%zz" }

\* fmt.Sprintf("/app-manifests/%s/conversions", code)
ConversionURL(code) == << "/app-manifests/" >> \o code \o << "/conversions" >>

\* http.NewRequest(method, url, nil): an error when the url does not parse.
NewRequest(method, url) ==
    IF \E i \in 1..Len(url) : url[i] \in InvalidEscapes
    THEN [req |-> [method |-> method, url |-> <<>>], err |-> UrlError("invalid URL escape")]
    ELSE [req |-> [method |-> method, url |-> url], err |-> Nil]

\* What client.Do may fail with.
ExchangeErrors == { << "unsupported protocol scheme" >> } \cup ApiErrors

\* The apps the conversion endpoint may answer with.
Apps ==
    { [ID |-> 7, Key |-> "pem-a", WebhookSecret |-> "hook-a", Name |-> "atlantis"],
      [ID |-> 8, Key |-> "pem-b", WebhookSecret |-> "", Name |-> ""] }

\* ExchangeCode up to client.Do: the check of GithubSetupComplete, the code
\* of the query and the request built with it.
CallExchangeCode ==
    /\ Idle
    /\ \E code \in Codes :
          LET w == IF code = <<>>
                   THEN respond(NewResponseWriter, StatusOK,
                                "Ignoring callback, missing code query parameter", NoData)
                   ELSE NewResponseWriter
              r == NewRequest("POST", ConversionURL(code))
          IN  /\ args' = [code |-> code]
              /\ loc' = [req |-> r.req, secret |-> <<>>]
              /\ IF ctl.GithubSetupComplete
                 THEN /\ ret' = [w |-> respond(NewResponseWriter, StatusBadRequest,
                                               "Atlantis already has GitHub credentials", NoData)]
                      /\ pc' = "done"
                 ELSE IF r.err # Nil
                 THEN /\ ret' = [w |-> respond(w, StatusBadGateway,
                                    "Error creating http request to exchange token", NoData)]
                      /\ pc' = "done"
                 ELSE /\ ret' = [w |-> w]
                      /\ pc' = "client.Do"
    /\ op' = "ExchangeCode"
    /\ net' = <<>>
    /\ posted' = <<>>
    /\ UNCHANGED <<g, susp, ctl>>

\* client.Do returns an error.
ExchangeDoFails ==
    /\ op = "ExchangeCode" /\ pc = "client.Do"
    /\ \E err \in ExchangeErrors :
          net' = Append(net, NetCall("POST /app-manifests/{code}/conversions", loc.req,
                                     FALSE, [StatusCode |-> 0, err |-> err]))
    /\ ret' = [w |-> respond(ret.w, StatusBadGateway, "Error exchanging code for token", NoData)]
    /\ pc' = "done"
    /\ UNCHANGED <<op, args, loc, posted, g, susp, ctl>>

\* client.Do returns a response and no error (go-github returns an error
\* for every status that is not 2xx).
ExchangeDoAnswered ==
    /\ op = "ExchangeCode" /\ pc = "client.Do"
    /\ \E StatusCode \in { 200, 201 }, app \in Apps :
          /\ net' = Append(net, NetCall("POST /app-manifests/{code}/conversions", loc.req,
                                        TRUE, [StatusCode |-> StatusCode, app |-> app]))
          /\ ret' = [w |-> IF StatusCode >= 400
                           THEN respond(ret.w, StatusCode, "Error exchanging code for token", NoData)
                           ELSE respond(ret.w, StatusOK,
                                    "Update these values in your Atlantis config and restart the server",
                                    [ID |-> app.ID, Key |-> app.Key,
                                     WebhookSecret |-> app.WebhookSecret])]
    /\ pc' = "done"
    /\ UNCHANGED <<op, args, loc, posted, g, susp, ctl>>

\* What rand.Read may fill the bytes of the secret with.
RandomBytes == { "bytes-a", "bytes-b" }

\* base64.URLEncoding.EncodeToString
EncodeToString(bytes) == << "base64url", bytes >>

\* The URL of New: https://<GithubHostname>/settings/apps/new, under
\* organizations/<GithubOrg> when an organization is set, with the webhook
\* secret in the query.
NewAppURL(c, secret) ==
    [Scheme |-> "https", Host |-> c.GithubHostname,
     Path |-> IF c.GithubOrg # ""
              THEN << "organizations/", c.GithubOrg, "/settings/apps/new" >>
              ELSE << "/settings/apps/new" >>,
     RawQuery |-> << "webhook_secret=" >> \o secret]

\* URL.String(): a path without a leading slash gets one after a host.
NewAppURLString(u) ==
    << u.Scheme, "://", u.Host >>
        \o (IF u.Path[1] # "/settings/apps/new" /\ u.Host # "" THEN << "/" >> ELSE <<>>)
        \o u.Path \o << "?" >> \o u.RawQuery

\* CallNew without the return after the response to a completed setup.
CallNewNoReturn ==
    /\ Idle
    /\ args' = [code |-> <<>>]
    /\ loc' = [req |-> [method |-> "", url |-> <<>>], secret |-> <<>>]
    /\ ret' = [w |-> IF ctl.GithubSetupComplete
                     THEN respond(NewResponseWriter, StatusBadRequest,
                                  "Atlantis already has GitHub credentials", NoData)
                     ELSE NewResponseWriter]
    /\ pc' = "rand.Read"
    /\ op' = "New"
    /\ net' = <<>>
    /\ posted' = <<>>
    /\ UNCHANGED <<g, susp, ctl>>

\* New up to rand.Read: the check of GithubSetupComplete.
CallNew ==
    /\ Idle
    /\ args' = [code |-> <<>>]
    /\ loc' = [req |-> [method |-> "", url |-> <<>>], secret |-> <<>>]
    /\ IF ctl.GithubSetupComplete
       THEN /\ ret' = [w |-> respond(NewResponseWriter, StatusBadRequest,
                                     "Atlantis already has GitHub credentials", NoData)]
            /\ pc' = "done"
       ELSE /\ ret' = [w |-> NewResponseWriter]
            /\ pc' = "rand.Read"
    /\ op' = "New"
    /\ net' = <<>>
    /\ posted' = <<>>
    /\ UNCHANGED <<g, susp, ctl>>

\* newWebhookSecret: rand.Read returns an error.
RandReadFails ==
    /\ op = "New" /\ pc = "rand.Read"
    /\ ret' = [w |-> respond(ret.w, StatusBadGateway, "Error initializing webhook secret", NoData)]
    /\ pc' = "done"
    /\ UNCHANGED <<op, args, loc, net, posted, g, susp, ctl>>

\* newWebhookSecret returns the secret; the Location header is set and the
\* redirect is written.
RandReadOk ==
    /\ op = "New" /\ pc = "rand.Read"
    /\ \E bytes \in RandomBytes :
          LET secret == EncodeToString(bytes) IN
          /\ loc' = [loc EXCEPT !.secret = secret]
          /\ ret' = [w |-> respond([ret.w EXCEPT !.Location =
                                        NewAppURLString(NewAppURL(ctl, secret))],
                                   StatusTemporaryRedirect, "Redirecting to GitHub...", NoData)]
    /\ pc' = "done"
    /\ UNCHANGED <<op, args, net, posted, g, susp, ctl>>

InitApp ==
    /\ pc = "idle"
    /\ op = "none"
    /\ args = [repo |-> Repo]
    /\ loc = [nextPage |-> 0]
    /\ net = <<>>
    /\ ret = [err |-> Nil]
    /\ posted = <<>>
    /\ g = NoGithubClient
    /\ susp = NoGoroutine
    /\ ctl \in Controllers

NextApp ==
    \/ CallExchangeCode
    \/ ExchangeDoFails
    \/ ExchangeDoAnswered
    \/ CallNew
    \/ RandReadFails
    \/ RandReadOk
    \/ Return

SpecApp == InitApp /\ [][NextApp]_vars

-----------------------------------------------------------------------------
(* Properties.  They are stated over  net , the calls an operation issued,  *)
(* and over what the operation returned.                                    *)

\* The last call issued.
LastCall == net[Len(net)]

\* Whether every call issued so far was served without error.
AllServed == \A i \in 1..Len(net) : net[i].ok

\* The entries the files of a page contribute, from the last file backwards.
RECURSIVE PageContribution(_)
PageContribution(page) ==
    IF page = <<>> THEN <<>>
    ELSE LET n == Len(page)
             f == page[n]
         IN  PageContribution(SubSeq(page, 1, n - 1))
                \o (IF f.Status = "renamed" THEN <<f.Filename, f.PreviousFilename>>
                    ELSE <<f.Filename>>)

\* The entries of the pages served by the first k calls, in page order.
RECURSIVE Collected(_)
Collected(k) ==
    IF k = 0 THEN <<>> ELSE Collected(k - 1) \o PageContribution(net[k].resp.items)

\* C1: the merge method sent in the merge call is merge-commit if merge commits
\* are allowed, otherwise rebase if allowed, otherwise squash if allowed,
\* otherwise merge-commit; whatever the flags, the merge call is issued (the
\* selection never fails locally).
C1_MergeMethod ==
    op = "MergePull" =>
        /\ (Len(net) >= 1 /\ net[1].ok) =>
              LET flags == net[1].resp
                  method == IF flags.AllowMergeCommit THEN "merge"
                            ELSE IF flags.AllowRebaseMerge THEN "rebase"
                            ELSE IF flags.AllowSquashMerge THEN "squash"
                            ELSE "merge"
              IN  /\ loc.method = method
                  /\ Len(net) = 1 => pc = "PullRequests.Merge"
                  /\ Len(net) = 2 => /\ net[2].api = "PullRequests.Merge"
                                     /\ net[2].req.options.MergeMethod = method
        /\ \A i \in 1..Len(net) :
              net[i].api = "PullRequests.Merge" => i = 2 /\ net[1].ok

\* C1 witness: no method is allowed, and the merge call was sent with merge-commit.
C1_Witness ==
    /\ op = "MergePull" /\ Len(net) = 2
    /\ ~net[1].resp.AllowMergeCommit /\ ~net[1].resp.AllowRebaseMerge
    /\ ~net[1].resp.AllowSquashMerge
    /\ net[2].req.options.MergeMethod = "merge"

\* C2: PullIsMergeable returns true exactly when the pull request was fetched
\* and its mergeable state is clean, unstable or has_hooks; for every other
\* state it returns false and no error; when the fetch fails it returns false
\* and an error.
C2_Mergeable ==
    (op = "PullIsMergeable" /\ pc = "done") =>
        /\ Len(net) = 1 /\ net[1].api = "PullRequests.Get"
        /\ ret.val = (net[1].ok /\ net[1].resp.MergeableState
                                      \in {"clean", "unstable", "has_hooks"})
        /\ net[1].ok => ret.err = Nil
        /\ ~net[1].ok => (ret.val = FALSE /\ ret.err # Nil)

\* C2 witness: the state of GitHub Enterprise's pre-receive hooks is mergeable.
C2_Witness ==
    /\ op = "PullIsMergeable" /\ pc = "done"
    /\ net[1].ok /\ net[1].resp.MergeableState = "has_hooks"
    /\ ret.val = TRUE

\* C3: PullIsApproved returns true as soon as a served page holds a review in
\* state APPROVED, and requests no page after it; when the walk ends with every
\* page served and none holding an APPROVED review, it returns false and no
\* error.
C3_Approved ==
    op = "PullIsApproved" =>
        /\ \A i \in 1..Len(net) :
              (net[i].ok /\ \E k \in 1..Len(net[i].resp.items) :
                                /\ ~net[i].resp.items[k].isNil
                                /\ net[i].resp.items[k].State = "APPROVED")
              => (i = Len(net) /\ pc = "done" /\ ret = [val |-> TRUE, err |-> Nil])
        /\ (/\ pc = "done"
            /\ \A i \in 1..Len(net) :
                  /\ net[i].ok
                  /\ \A k \in 1..Len(net[i].resp.items) :
                        \/ net[i].resp.items[k].isNil
                        \/ net[i].resp.items[k].State # "APPROVED")
           => (ret = [val |-> FALSE, err |-> Nil] /\ LastCall.resp.NextPage = 0)

\* C3 witness: the second page holds an approval behind another review and
\* names a next page, which is not requested.
C3_Witness ==
    /\ op = "PullIsApproved" /\ pc = "done" /\ Len(net) = 2
    /\ net[2].ok /\ net[2].resp.NextPage # 0
    /\ Len(net[2].resp.items) = 2 /\ net[2].resp.items[2].State = "APPROVED"
    /\ ret.val = TRUE

\* C4: when every page of the walk was served, GetModifiedFiles returns, with
\* no error, the entries of the pages in page order and in within-page order
\* (a file's name, followed by its previous name when it was renamed), and it
\* made one request per page: the first for the first page, each later one
\* for the page the response before it named, the last response naming none.
C4_AllFiles ==
    (op = "GetModifiedFiles" /\ pc = "done" /\ AllServed) =>
        /\ ret.err = Nil
        /\ ret.files = Collected(Len(net))
        /\ net[1].req.opts.Page = 0
        /\ \A i \in 1..(Len(net) - 1) :
              /\ net[i].resp.NextPage # 0
              /\ net[i + 1].req.opts.Page = net[i].resp.NextPage
        /\ LastCall.resp.NextPage = 0

\* C4 witness: three pages, files renamed among them.
C4_Witness ==
    /\ op = "GetModifiedFiles" /\ pc = "done" /\ AllServed /\ Len(net) = 3
    /\ net[1].resp.items = <<FileMod, FileRen>>
    /\ net[3].resp.items = <<FileRen, FileAdd>>
    /\ Len(ret.files) >= 6

\* C5: when the fetch of page k fails, GetModifiedFiles returns the error with
\* the entries of pages 1..k-1, and requests no further page.
C5_PartialFiles ==
    op = "GetModifiedFiles" =>
        \A k \in 1..Len(net) :
            ~net[k].ok =>
                /\ k = Len(net) /\ pc = "done"
                /\ ret.err = net[k].resp.err /\ ret.err # Nil
                /\ ret.files = Collected(k - 1)

\* C5 witness: the third page fails after two pages with files.
C5_Witness ==
    /\ op = "GetModifiedFiles" /\ pc = "done" /\ Len(net) = 3
    /\ ~net[3].ok
    /\ Len(ret.files) >= 6 /\ ret.err # Nil

\* The number of calls served among the first k.
RECURSIVE Served(_)
Served(k) == IF k = 0 THEN 0 ELSE Served(k - 1) + (IF net[k].ok THEN 1 ELSE 0)

\* C6: CreateComment posts the segments as separate comments in segment
\* order; when posting segment i fails it returns that error, no later
\* segment is posted and the segments before i stay posted; it returns no
\* error only when every segment was posted.
C6_CommentsInOrder ==
    op = "CreateComment" =>
        /\ Len(net) <= Len(loc.comments)
        /\ \A i \in 1..Len(net) :
              /\ net[i].api = "Issues.CreateComment"
              /\ net[i].req.Body = loc.comments[i]
              /\ net[i].req.num = args.pullNum
              /\ ~net[i].ok =>
                    (i = Len(net) /\ pc = "done" /\ ret.err = net[i].resp.err
                       /\ ret.err # Nil)
        /\ posted = SubSeq(loc.comments, 1, Served(Len(net)))
        /\ (pc = "done" /\ ret.err = Nil) =>
              (Len(net) = Len(loc.comments) /\ AllServed /\ posted = loc.comments)

\* C6 witness: of three segments the second fails; the first stays posted.
C6_Witness ==
    /\ op = "CreateComment" /\ pc = "done" /\ Len(loc.comments) = 3
    /\ Len(net) = 2 /\ ~net[2].ok
    /\ posted = <<loc.comments[1]>> /\ ret.err # Nil

\* C7: MergePull returns no error only when the merge call was served and
\* reported merged; when the merge call fails it returns that error wrapped;
\* when the call is served but reports not merged it returns another error,
\* which carries the message of the response.
C7_MergeResult ==
    (op = "MergePull" /\ pc = "done") =>
        /\ ret.err = Nil <=> (Len(net) = 2 /\ net[2].ok /\ net[2].resp.Merged)
        /\ (Len(net) = 2 /\ ~net[2].ok) =>
              ret.err = <<"merging pull request">> \o net[2].resp.err
        /\ (Len(net) = 2 /\ net[2].ok /\ ~net[2].resp.Merged) =>
              /\ ret.err = <<"could not merge pull request", net[2].resp.Message>>
              /\ \A e \in ApiErrors : ret.err # <<"merging pull request">> \o e

\* C7 witness: the merge call is served and reports not merged, with a message.
C7_Witness ==
    /\ op = "MergePull" /\ pc = "done" /\ Len(net) = 2
    /\ net[2].ok /\ ~net[2].resp.Merged
    /\ net[2].resp.Message = "Pull Request is not mergeable"
    /\ ret.err # Nil

\* C8: UpdateStatus issues exactly one status-creation call, for the head
\* commit of the pull request, with state pending for pending, success for
\* success, failure for failed and error for every other status; context,
\* description and target URL are passed as given.
C8_Status ==
    op = "UpdateStatus" =>
        /\ pc # "done" => net = <<>>
        /\ pc = "done" =>
              /\ Len(net) = 1 /\ net[1].api = "Repositories.CreateStatus"
              /\ net[1].req.ref = args.pull.HeadCommit
              /\ net[1].req.status.State =
                    (CASE args.state = "PendingCommitStatus" -> "pending"
                       [] args.state = "SuccessCommitStatus" -> "success"
                       [] args.state = "FailedCommitStatus" -> "failure"
                       [] args.state \notin {"PendingCommitStatus", "SuccessCommitStatus",
                                             "FailedCommitStatus"} -> "error")
              /\ net[1].req.status.Context = args.src
              /\ net[1].req.status.Description = args.description
              /\ net[1].req.status.TargetURL = args.url
              /\ ret.err = net[1].resp.err

\* C8 witness: a failed status was written as failure against the head commit.
C8_Witness ==
    /\ op = "UpdateStatus" /\ pc = "done"
    /\ args.state = "FailedCommitStatus"
    /\ net[1].req.status.State = "failure"
    /\ net[1].req.ref = "sha-b"

\* C9: whenever key loading, signing, the identity request or the parse of the
\* installation id fails, the application credential's Client() returns an
\* error and no client; it never panics.
C9_ClientReturnsError ==
    op = "AppClient" =>
        /\ pc # "panic"
        /\ (pc = "done" /\ (loc.err # Nil \/ ret.err # Nil)) =>
              (ret.client = NoClient /\ ret.err # Nil)

\* The id text of the identity endpoint's answer.
IdText == net[1].resp.ID

\* Whether a text is a base-10 integer: digits, after at most one sign.
IsBase10(t) ==
    LET ds == IF t # <<>> /\ Head(t) \in {"+", "-"} THEN Tail(t) ELSE t
    IN  ds # <<>> /\ \A i \in 1..Len(ds) : ds[i] \in Digits

\* The integer a base-10 text writes.
RECURSIVE Magnitude(_)
Magnitude(ds) ==
    IF ds = <<>> THEN 0
    ELSE 10 * Magnitude(SubSeq(ds, 1, Len(ds) - 1)) + DigitVal(ds[Len(ds)])

IntegerOf(t) ==
    IF Head(t) = "-" THEN 0 - Magnitude(Tail(t))
    ELSE IF Head(t) = "+" THEN Magnitude(Tail(t))
    ELSE Magnitude(t)

\* Whether a base-10 text writes an integer of -(1<<63) .. (1<<63)-1.
FitsInt64(t) ==
    LET ds == StripZeros(IF Head(t) \in {"+", "-"} THEN Tail(t) ELSE t)
    IN  IF Head(t) = "-" THEN ~DigitsLess(Cutoff64, ds) ELSE DigitsLess(ds, Cutoff64)

\* C10 as stated: getInstallationID returns the integer value of the id text
\* whenever the text is a base-10 integer, and an error for every other text.
C10_Original ==
    (op = "AppClient" /\ Len(net) = 1 /\ net[1].ok) =>
        /\ IsBase10(IdText) => (loc.err = Nil /\ loc.installationID = IntegerOf(IdText))
        /\ ~IsBase10(IdText) => loc.err # Nil

\* C10 as amended: getInstallationID returns the integer value of the id text
\* ("12345" yields 12345) when the text is a base-10 integer that fits a signed
\* 64-bit integer, and an error for every other text: a non-numeric text, the
\* empty text, and a base-10 integer out of that range.
C10_InstallationID ==
    (op = "AppClient" /\ Len(net) = 1 /\ net[1].ok) =>
        /\ (IsBase10(IdText) /\ FitsInt64(IdText)) =>
              (loc.err = Nil /\ loc.sat = "" /\ loc.installationID = IntegerOf(IdText))
        /\ ~(IsBase10(IdText) /\ FitsInt64(IdText)) => loc.err # Nil
        /\ IdText = <<"1", "2", "3", "4", "5">> => loc.installationID = 12345

\* C10 witness: the id "12345" was resolved to 12345.
C10_Witness ==
    /\ op = "AppClient" /\ Len(net) = 1 /\ net[1].ok
    /\ IdText = <<"1", "2", "3", "4", "5">>
    /\ loc.installationID = 12345 /\ loc.err = Nil

\* C11: no operation retries: once a network call of an operation returned an
\* error, the operation issues no further network call and returns an error
\* to its caller.
C11_NoRetry ==
    \A i \in 1..Len(net) :
        ~net[i].ok => (i = Len(net) /\ pc = "done" /\ ret.err # Nil)

\* C14: for a comment text of length at most 65536, CreateComment posts one
\* comment, whose body is the whole text with no continuation marker.
C14_ShortComment ==
    (op = "CreateComment" /\ args.comment <= 65536) =>
        LET whole == [from |-> 1, to |-> args.comment, start |-> FALSE, end |-> FALSE] IN
        /\ Len(net) <= 1
        /\ \A i \in 1..Len(net) : net[i].req.Body = whole
        /\ (pc = "done" /\ ret.err = Nil) => posted = <<whole>>
        /\ pc # "done" => (net = <<>> /\ loc.comments = <<whole>>)

\* C14 witness: a text of exactly 65536 characters was posted as one comment.
C14_Witness ==
    /\ op = "CreateComment" /\ pc = "done" /\ ret.err = Nil
    /\ args.comment = 65536
    /\ Len(posted) = 1 /\ posted[1].to = 65536

\* C15: every comment body CreateComment posts is at most 65536 long,
\* counting the continuation marker after it (every segment but the last has
\* one) and before it (every segment but the first has one).
C15_BodyLength ==
    op = "CreateComment" =>
        \A i \in 1..Len(net) :
            LET b == net[i].req.Body IN
            /\ b.start = (i > 1)
            /\ b.end = (i < Len(loc.comments))
            /\ (b.to - b.from + 1) + (IF b.start THEN 82 ELSE 0)
                                   + (IF b.end THEN 106 ELSE 0) <= 65536

\* C15 witness: the middle one of three segments, with both markers, is
\* exactly 65536 long.
C15_Witness ==
    /\ op = "CreateComment" /\ Len(loc.comments) = 3 /\ Len(net) >= 2
    /\ net[2].req.Body.start /\ net[2].req.Body.end
    /\ net[2].req.Body.to - net[2].req.Body.from + 1 + 82 + 106 = 65536

\* C16: for a comment text longer than 65536, the segments handed to the
\* platform, in order and without their continuation markers, are consecutive
\* pieces of the text from its first character on, and when CreateComment
\* returns no error they end with its last character: nothing is lost,
\* duplicated or reordered.
C16_Reconstruct ==
    (op = "CreateComment" /\ args.comment > 65536) =>
        /\ \A i \in 1..Len(net) :
              /\ net[i].req.Body.from = (IF i = 1 THEN 1 ELSE net[i - 1].req.Body.to + 1)
              /\ net[i].req.Body.from <= net[i].req.Body.to
              /\ net[i].req.Body.to <= args.comment
        /\ (pc = "done" /\ ret.err = Nil) =>
              (Len(net) >= 2 /\ LastCall.req.Body.to = args.comment)

\* C16 witness: a text one character longer than two full portions was posted
\* in three segments, the last holding the last character.
C16_Witness ==
    /\ op = "CreateComment" /\ pc = "done" /\ ret.err = Nil
    /\ args.comment = 2 * MaxWithSep + 1
    /\ Len(posted) = 3
    /\ posted[3].from = args.comment /\ posted[3].to = args.comment

\* C18 as stated: UpdateStatus fetches the current pull request before it
\* writes a status.
C18_Original ==
    op = "UpdateStatus" =>
        \A i \in 1..Len(net) :
            net[i].api = "Repositories.CreateStatus" =>
                \E j \in 1..(i - 1) : net[j].api = "PullRequests.Get"

\* C18 as amended: UpdateStatus fetches nothing: its only network call is the
\* creation of the status, for the head commit identifier its caller passed.
C18_CallerHeadCommit ==
    op = "UpdateStatus" =>
        \A i \in 1..Len(net) :
            /\ net[i].api = "Repositories.CreateStatus"
            /\ i = 1
            /\ net[i].req.ref = args.pull.HeadCommit

\* C18 witness: a status was written for the commit the caller passed, as the
\* first call of the operation.
C18_Witness ==
    /\ op = "UpdateStatus" /\ pc = "done" /\ Len(net) = 1
    /\ net[1].api = "Repositories.CreateStatus"
    /\ args.pull.HeadCommit = "sha-a" /\ net[1].req.ref = "sha-a"

\* The steps of Client() in the order of the exchange.
ExchangeOrder == <<"NewAppsTransportKeyFromFile", "Do", "ParseInt", "NewKeyFromFile">>

\* C19: the application credential's Client() builds the application transport
\* first, then issues the identity request, then parses the id, and builds the
\* installation transport only after an installation id was resolved; when a
\* step fails, no later step is taken, no installation transport is built and
\* no client is returned.
C19_ExchangeOrder ==
    op = "AppClient" =>
        /\ Len(loc.steps) <= 4
        /\ loc.steps = SubSeq(ExchangeOrder, 1, Len(loc.steps))
        /\ Len(net) = (IF Len(loc.steps) >= 2 THEN 1 ELSE 0)
        /\ Len(loc.steps) = 4 => (net[1].ok /\ loc.err = Nil)
        /\ (loc.err # Nil \/ (Len(net) = 1 /\ ~net[1].ok)) =>
              (Len(loc.steps) < 4 /\ pc \in {"done", "panic"} /\ ret.client = NoClient)
        /\ ret.client # NoClient =>
              (pc = "done" /\ Len(loc.steps) = 4 /\ ret.err = Nil
                 /\ ret.client.installationID = loc.installationID)

\* C19 witness: the id did not parse, and Client() ended after three steps
\* with no client.
C19_Witness ==
    /\ op = "AppClient" /\ args.version = "github_credentials.go" /\ pc = "done"
    /\ Len(loc.steps) = 3 /\ loc.err # Nil
    /\ ret.client = NoClient

\* C20: a page walk requests its first page with no page number, every later
\* request carries the next-page marker of the response before it, and a
\* request follows a response only when that response's marker is not zero.
C20_PageWalk ==
    op \in {"GetModifiedFiles", "PullIsApproved"} =>
        /\ \A i \in 1..Len(net) :
              /\ net[i].req.opts.PerPage = 300
              /\ i = 1 => net[i].req.opts.Page = 0
              /\ i > 1 => /\ net[i - 1].ok
                          /\ net[i - 1].resp.NextPage # 0
                          /\ net[i].req.opts.Page = net[i - 1].resp.NextPage
        /\ (pc = "done" /\ AllServed /\ LastCall.resp.NextPage # 0) =>
              (op = "PullIsApproved" /\ ret.val = TRUE)

\* C20 witness: a walk of reviews of three requests, the markers 2 and then 1.
C20_Witness ==
    /\ op = "PullIsApproved" /\ Len(net) = 3
    /\ net[1].resp.NextPage = 2 /\ net[2].req.opts.Page = 2
    /\ net[2].resp.NextPage = 1 /\ net[3].req.opts.Page = 1

\* C13: NewGithubClient leaves the base URL of the client as it is for the
\* hostname "github.com"; for every other hostname the base URL of the client
\* reads "https://<hostname>/api/v3/"; and when that text does not parse as a
\* URL, NewGithubClient returns an error and no client.
C13_BaseURL ==
    (op = "NewGithubClient" /\ pc = "done") =>
        LET text == << "https", "://" >> \o args.hostname \o << "/api/v3/" >> IN
        IF args.hostname = << "github", ".", "com" >>
        THEN /\ ret.err = Nil
             /\ g = ret.client
             /\ g.client.BaseURL = defaultBaseURL
        ELSE IF Parse(text).err = Nil
        THEN /\ ret.err = Nil
             /\ g = ret.client
             /\ URLString(g.client.BaseURL) = text
             /\ g.client.BaseURL.Host = args.hostname
        ELSE /\ ret.err # Nil
             /\ ret.client = NoGithubClient
             /\ g = NoGithubClient

\* C13 witness: a client of an application credential for a GitHub
\* Enterprise hostname with a port.
C13_Witness ==
    /\ op = "NewGithubClient" /\ pc = "done" /\ ret.err = Nil
    /\ args.hostname = << "ghe", ".", "example", ".", "com", ":", "8443" >>
    /\ ~IsUser(args.c)
    /\ URLString(g.client.BaseURL) =
          << "https", "://", "ghe", ".", "example", ".", "com", ":", "8443", "/api/v3/" >>

\* C17: a GithubClient is backed by one credential-derived transport: the
\* client comes into being only when NewGithubClient returns it, with the http
\* client that its one call of credentials.Client() returned (for an
\* application credential one exchange: one identity request, every step
\* once), and no step of any operation changes the client afterwards.
C17_OneTransport ==
    [][ /\ Constructed => g' = g
        /\ g' # g =>
              /\ op = "NewGithubClient" /\ pc = "github.NewClient"
              /\ pc' = "done" /\ ret'.err = Nil /\ ret'.client = g'
              /\ g'.client.client = ret.client
              /\ g'.client.client.Transport # "nil"
              /\ IF IsUser(args.c)
                 THEN loc.steps = << "BasicAuthTransport" >> /\ net = <<>>
                 ELSE loc.steps = ExchangeOrder /\ Len(net) = 1 ]_vars

\* C17 witness: an operation has written a status through a client of an
\* application credential, and the client is as NewGithubClient built it.
C17_Witness ==
    /\ op = "UpdateStatus" /\ pc = "done" /\ Len(net) = 1
    /\ g.client.client = InstallationClient(7, 1)
    /\ g.client.BaseURL = defaultBaseURL

\* The entries of the pages served by the first k calls of the calls n.
RECURSIVE CollectedOf(_, _)
CollectedOf(n, k) ==
    IF k = 0 THEN <<>> ELSE CollectedOf(n, k - 1) \o PageContribution(n[k].resp.items)

\* Whether a page of reviews holds an approval.
HasApproval(items) ==
    \E k \in 1..Len(items) : ~items[k].isNil /\ items[k].State = "APPROVED"

\* A goroutine's page walk is the one it would make alone against the
\* responses it got: every request is for its own pull request and carries
\* the marker of its own response before; the walk goes on exactly while the
\* responses ask for it; the entries gathered and the result are those of its
\* own responses.
AsAlone(r) ==
    r.op \in { "GetModifiedFiles", "PullIsApproved" } =>
        LET n == r.net
            last == n[Len(n)]
            served == IF n # <<>> /\ ~last.ok THEN Len(n) - 1 ELSE Len(n)
            goesOn(i) == /\ n[i].ok
                         /\ n[i].resp.NextPage # 0
                         /\ ~(r.op = "PullIsApproved" /\ HasApproval(n[i].resp.items))
        IN  /\ \A i \in 1..Len(n) :
                  /\ n[i].req.num = r.args.pull.Num
                  /\ n[i].req.opts.Page = (IF i = 1 THEN 0 ELSE n[i - 1].resp.NextPage)
                  /\ i < Len(n) => goesOn(i)
            /\ r.pc = "done" => (n # <<>> /\ ~goesOn(Len(n)))
            /\ r.pc # "done" =>
                  /\ r.loc.nextPage = (IF n = <<>> THEN 0 ELSE last.resp.NextPage)
                  /\ n # <<>> => goesOn(Len(n))
            /\ r.op = "GetModifiedFiles" =>
                  /\ r.loc.files = CollectedOf(n, served)
                  /\ r.pc = "done" =>
                        r.ret = [files |-> CollectedOf(n, served),
                                 err |-> IF last.ok THEN Nil ELSE last.resp.err]
            /\ (r.op = "PullIsApproved" /\ r.pc = "done") =>
                  r.ret = IF last.ok
                          THEN [val |-> HasApproval(last.resp.items), err |-> Nil]
                          ELSE [val |-> FALSE, err |-> << "getting reviews" >> \o last.resp.err]

\* C12: two goroutines run page walks on one GithubClient, interleaved in any
\* way: the client stays as it was built, and the walk of each goroutine (its
\* requests, the entries it gathers, its result) is the one it would make
\* alone against the responses it got.
C12_Concurrent ==
    /\ g = SharedClient
    /\ AsAlone(Registers)
    /\ AsAlone(susp)

\* C12 witness: both goroutines are amid a walk, one of files at its third
\* page and one of reviews at its second, each with the marker it was given.
C12_Witness ==
    /\ op = "GetModifiedFiles" /\ pc = "ListFiles" /\ Len(net) = 2
    /\ net[1].resp.NextPage = 2 /\ net[2].req.opts.Page = 2 /\ loc.nextPage = 1
    /\ susp.op = "PullIsApproved" /\ susp.pc = "ListReviews" /\ Len(susp.net) = 1
    /\ susp.loc.nextPage = 2
    /\ susp.args.pull.Num # args.pull.Num

\* C21 as stated: a page walk ends at a response exactly when the response is
\* an error or names no next page: nothing else ends it.
C21_Original ==
    op \in { "GetModifiedFiles", "PullIsApproved" } =>
        \A i \in 1..Len(net) :
            LET stop == ~net[i].ok \/ net[i].resp.NextPage = 0 IN
            /\ stop => (i = Len(net) /\ pc = "done")
            /\ ~stop => (i < Len(net) \/ pc # "done")

\* C21 as amended: every iteration of a page walk issues one request, and the
\* walk ends at a response exactly when the response is an error, or names no
\* next page, or (in PullIsApproved) holds an APPROVED review; whether the
\* page is empty plays no part.
C21_Terminates ==
    op \in { "GetModifiedFiles", "PullIsApproved" } =>
        /\ pc = "done" => net # <<>>
        /\ \A i \in 1..Len(net) :
              LET stop == \/ ~net[i].ok
                          \/ net[i].resp.NextPage = 0
                          \/ op = "PullIsApproved" /\ HasApproval(net[i].resp.items)
              IN  /\ stop => (i = Len(net) /\ pc = "done")
                  /\ ~stop => (i < Len(net) \/ pc \in { "ListFiles", "ListReviews" })

\* C21 witness: a walk of files that went on after an empty page naming a
\* next page and ended at a page with files naming none.
C21_Witness ==
    /\ op = "GetModifiedFiles" /\ pc = "done" /\ Len(net) = 2
    /\ net[1].ok /\ net[1].resp.items = <<>> /\ net[1].resp.NextPage # 0
    /\ net[2].ok /\ net[2].resp.items # <<>> /\ net[2].resp.NextPage = 0

\* C22: MergePull issues the merge call at most once, and only after the
\* fetch of the repository was served; when that fetch fails MergePull
\* returns an error and issues no merge call.
C22_MergeAfterFetch ==
    op = "MergePull" =>
        /\ Cardinality({ i \in 1..Len(net) : net[i].api = "PullRequests.Merge" }) <= 1
        /\ \A i \in 1..Len(net) :
              net[i].api = "PullRequests.Merge" =>
                  \E j \in 1..(i - 1) : net[j].api = "Repositories.Get" /\ net[j].ok
        /\ \A j \in 1..Len(net) :
              (net[j].api = "Repositories.Get" /\ ~net[j].ok) =>
                  /\ pc = "done" /\ ret.err # Nil
                  /\ \A i \in 1..Len(net) : net[i].api # "PullRequests.Merge"
        /\ pc = "done" => net # <<>>

\* C22 witness: the fetch of the repository failed, and MergePull returned
\* the error having issued that call only.
C22_Witness ==
    /\ op = "MergePull" /\ pc = "done" /\ Len(net) = 1
    /\ net[1].api = "Repositories.Get" /\ ~net[1].ok
    /\ ret.err # Nil

\* C23: every invocation of ExchangeCode and of New writes one response (one
\* status code and one line of body); a callback with no code is answered by
\* one 200 and issues no conversion request.
C23_OneResponse ==
    op \in { "ExchangeCode", "New" } =>
        /\ pc = "done" => (ret.w.headers = 1 /\ Len(ret.w.body) = 1)
        /\ (op = "ExchangeCode" /\ args.code = <<>> /\ ~ctl.GithubSetupComplete) =>
              /\ net = <<>>
              /\ pc = "done"
              /\ ret.w.status = 200

\* C24: when GithubSetupComplete is true, ExchangeCode and New write the
\* response 400 and do nothing else: no request is issued, no webhook secret
\* is generated, no Location header is set and nothing of an app's
\* credentials is written; and no step of a handler changes the controller.
C24_SetupComplete ==
    [][ /\ ctl' = ctl
        /\ (op' \in { "ExchangeCode", "New" } /\ ctl'.GithubSetupComplete) =>
              /\ pc' = "done"
              /\ net' = <<>>
              /\ loc'.secret = <<>>
              /\ ret'.w.status = 400 /\ ret'.w.headers = 1
              /\ ret'.w.Location = <<>>
              /\ Len(ret'.w.body) = 1 /\ ret'.w.body[1].data = NoData ]_vars

\* C24 witness: New was called on a controller whose setup is complete and
\* answered 400.
C24_Witness ==
    /\ op = "New" /\ pc = "done" /\ ctl.GithubSetupComplete
    /\ ret.w.status = 400 /\ ret.w.Location = <<>>

=============================================================================
